---------------------------- MODULE Spec2Model ----------------------------
(***************************************************************************)
(* Model of the address book assistant of src/main.py: the Field classes   *)
(* (Phone, Birthday), Record, AddressBook with its upcoming-birthdays      *)
(* query, the input_error handlers and the command loop main().            *)
(*                                                                         *)
(* Strings that the code inspects character by character (phone numbers,   *)
(* dates in text form) are sequences of Unicode code points.  Dates are    *)
(* records tagged with the Python type that carries them (datetime.date or *)
(* datetime.datetime), because the code mixes the two.                     *)
(***************************************************************************)
EXTENDS Integers, Sequences, FiniteSets, TLC

VARIABLES book, out, pc, saved

vars == <<book, out, pc, saved>>

---------------------------------------------------------------------------
(* Bounds of the model.                                                    *)

\* Longest phone list a record is grown to.
MaxPhones == 3

\* Longest phone list a contact is grown to by typed commands.
MaxLinePhones == 2

\* Number of consecutive days of each range the clock is drawn from.
NumDays == 10

\* Number of consecutive birthdays around New Year the inputs offer.
NumBirthdays == 6

---------------------------------------------------------------------------
(* Results of calls: a value, or the exception the call raised.            *)

Ok(v) == [status |-> "ok", value |-> v]

Raise(e) == [status |-> e, value |-> <<>>]

---------------------------------------------------------------------------
(* The proleptic Gregorian calendar of Python's datetime module.           *)

IsLeap(y) == y % 4 = 0 /\ (y % 100 # 0 \/ y % 400 = 0)

DAYS_IN_MONTH == <<31, 28, 31, 30, 31, 30, 31, 31, 30, 31, 30, 31>>

DAYS_BEFORE_MONTH == <<0, 31, 59, 90, 120, 151, 181, 212, 243, 273, 304, 334>>

DaysInMonth(y, m) == IF m = 2 /\ IsLeap(y) THEN 29 ELSE DAYS_IN_MONTH[m]

DaysBeforeYear(y) ==
    LET p == y - 1 IN p * 365 + (p \div 4) - (p \div 100) + (p \div 400)

DaysBeforeMonth(y, m) ==
    DAYS_BEFORE_MONTH[m] + (IF m > 2 /\ IsLeap(y) THEN 1 ELSE 0)

Ymd2Ord(y, m, d) == DaysBeforeYear(y) + DaysBeforeMonth(y, m) + d

\* datetime._ord2ymd: the <<year, month, day>> of a proleptic ordinal.
Ord2Ymd(ord) ==
    LET n0    == ord - 1
        n400  == n0 \div 146097
        r400  == n0 % 146097
        n100  == r400 \div 36524
        r100  == r400 % 36524
        n4    == r100 \div 1461
        r4    == r100 % 1461
        n1    == r4 \div 365
        n     == r4 % 365
        year  == n400 * 400 + 1 + n100 * 100 + n4 * 4 + n1
        leapyear == n1 = 3 /\ (n4 # 24 \/ n100 = 3)
        month0 == (n + 50) \div 32
        prec0  == DAYS_BEFORE_MONTH[month0]
                    + (IF month0 > 2 /\ leapyear THEN 1 ELSE 0)
        month  == IF prec0 > n THEN month0 - 1 ELSE month0
        prec   == IF prec0 > n
                  THEN prec0 - (DAYS_IN_MONTH[month]
                                 + (IF month = 2 /\ leapyear THEN 1 ELSE 0))
                  ELSE prec0
    IN  IF n1 = 4 \/ n100 = 4
        THEN <<year - 1, 12, 31>>
        ELSE <<year, month, n - prec + 1>>

\* A datetime.date and a datetime.datetime (at midnight, as strptime with a
\* date-only format builds it).
Date(y, m, d) == [kind |-> "date", year |-> y, month |-> m, day |-> d]

Datetime(y, m, d) == [kind |-> "datetime", year |-> y, month |-> m, day |-> d]

\* Record.birthday = None.
None == [kind |-> "None", year |-> 0, month |-> 0, day |-> 0]

toordinal(d) == Ymd2Ord(d.year, d.month, d.day)

\* date.weekday(): Monday is 0, Sunday is 6.
weekday(d) == (toordinal(d) + 6) % 7

\* date + timedelta(days=n), n possibly negative.
timedelta_add(d, n) ==
    LET t == Ord2Ymd(toordinal(d) + n) IN Date(t[1], t[2], t[3])

\* x.replace(year=y): ValueError when the day does not exist in year y.
replace(x, y) ==
    IF x.day > DaysInMonth(y, x.month)
    THEN Raise("ValueError")
    ELSE Ok([x EXCEPT !.year = y])

\* datetime.date(): the date part of a datetime.
date(x) == [x EXCEPT !.kind = "date"]

\* a < b: ordering a datetime against a date is a TypeError.
date_lt(a, b) ==
    IF a.kind # b.kind THEN Raise("TypeError")
    ELSE Ok(toordinal(a) < toordinal(b))

\* (a - b).days: subtracting a date from a datetime is a TypeError.
date_sub_days(a, b) ==
    IF a.kind # b.kind THEN Raise("TypeError")
    ELSE Ok(toordinal(a) - toordinal(b))

---------------------------------------------------------------------------
(* Text: sequences of code points.                                         *)

DOT == 46

ZERO == 48

AsciiDigits == 48 .. 57

\* Code points of Unicode category Nd that the inputs of the model use:
\* ASCII, Arabic-Indic, Devanagari and fullwidth digits.  In a str pattern
\* \d matches every one of them.
UnicodeDecimals ==
    AsciiDigits \cup (1632 .. 1641) \cup (2406 .. 2415) \cup (65296 .. 65305)

\* n as text of `width` digits, zero padded (strftime's %d, %m, %Y).
RECURSIVE Digits(_, _)
Digits(n, width) ==
    IF width = 0 THEN <<>>
    ELSE Append(Digits(n \div 10, width - 1), ZERO + (n % 10))

\* The number a text of ASCII digits denotes.
RECURSIVE ToInt(_)
ToInt(s) ==
    IF s = <<>> THEN 0
    ELSE 10 * ToInt(SubSeq(s, 1, Len(s) - 1)) + (s[Len(s)] - ZERO)

\* x.strftime("%Y.%m.%d")
strftime_Ymd(x) ==
    Digits(x.year, 4) \o <<DOT>> \o Digits(x.month, 2) \o <<DOT>>
        \o Digits(x.day, 2)

\* x.strftime("%d.%m.%Y")
strftime_dmY(x) ==
    Digits(x.day, 2) \o <<DOT>> \o Digits(x.month, 2) \o <<DOT>>
        \o Digits(x.year, 4)

\* s < t for str: lexicographic by code point.
RECURSIVE str_lt(_, _)
str_lt(s, t) ==
    IF t = <<>> THEN FALSE
    ELSE IF s = <<>> THEN TRUE
    ELSE IF s[1] # t[1] THEN s[1] < t[1]
    ELSE str_lt(Tail(s), Tail(t))

\* The positions of the dots of a text.
DotsOf(s) == {i \in 1 .. Len(s) : s[i] = DOT}

\* datetime.strptime(value, "%d.%m.%Y"): day of 1 or 2 digits, month of 1 or
\* 2 digits, year of 4 digits, separated by dots, denoting a real date.
strptime_dmY(s) ==
    LET dots == DotsOf(s) IN
    IF Cardinality(dots) # 2 THEN Raise("ValueError")
    ELSE
      LET i  == CHOOSE i \in dots : \A j \in dots : i <= j
          k  == CHOOSE k \in dots : \A j \in dots : j <= k
          ds == SubSeq(s, 1, i - 1)
          ms == SubSeq(s, i + 1, k - 1)
          ys == SubSeq(s, k + 1, Len(s))
          digits(t) == \A j \in 1 .. Len(t) : t[j] \in AsciiDigits
      IN  IF ~(/\ Len(ds) \in 1 .. 2 /\ Len(ms) \in 1 .. 2 /\ Len(ys) = 4
               /\ digits(ds) /\ digits(ms) /\ digits(ys))
          THEN Raise("ValueError")
          ELSE
            LET d == ToInt(ds)
                m == ToInt(ms)
                y == ToInt(ys)
            IN  IF /\ m \in 1 .. 12
                   /\ y >= 1
                   /\ d >= 1
                   /\ d <= DaysInMonth(y, m)
                THEN Ok(Datetime(y, m, d))
                ELSE Raise("ValueError")

---------------------------------------------------------------------------
(* Field, Phone, Birthday.                                                 *)

PhoneLen == 10

\* Phone.validate: re.fullmatch(r"\d{10}", value).
validate(value) ==
    IF Len(value) = PhoneLen /\ \A i \in 1 .. Len(value) : value[i] \in UnicodeDecimals
    THEN Ok(value)
    ELSE Raise("ValueError")

\* Phone(value): validate, then Field.__init__ stores the value as given.
Phone(value) ==
    LET v == validate(value) IN
    IF v.status # "ok" THEN v ELSE Ok(value)

\* Birthday(value): the datetime strptime parses, or ValueError.
Birthday(value) == strptime_dmY(value)

\* Birthday.__str__
Birthday_str(b) == strftime_dmY(b)

---------------------------------------------------------------------------
(* Record.                                                                 *)

\* Record(name)
Record(name) == [name |-> name, phones |-> <<>>, birthday |-> None]

\* Record.add_phone: the record after the call, or the exception.
add_phone(rec, phone) ==
    LET p == Phone(phone) IN
    IF p.status # "ok" THEN Raise(p.status)
    ELSE Ok([rec EXCEPT !.phones = Append(@, p.value)])

\* Record.remove_phone
remove_phone(rec, phone) ==
    [rec EXCEPT !.phones = SelectSeq(@, LAMBDA p : p # phone)]

\* The first index of the phone list holding old_phone, 0 when there is none
\* (the loop of edit_phone up to its break).
FirstIndex(phones, old_phone) ==
    IF \E i \in 1 .. Len(phones) : phones[i] = old_phone
    THEN CHOOSE i \in 1 .. Len(phones) :
            /\ phones[i] = old_phone
            /\ \A j \in 1 .. i - 1 : phones[j] # old_phone
    ELSE 0

\* edit_phone without its break: every match is replaced.
edit_phone_every_match(rec, old_phone, new_phone) ==
    IF FirstIndex(rec.phones, old_phone) = 0 THEN Ok(rec)
    ELSE LET p == Phone(new_phone) IN
         IF p.status # "ok" THEN Raise(p.status)
         ELSE Ok([rec EXCEPT !.phones =
                    [j \in 1 .. Len(@) |-> IF @[j] = old_phone THEN p.value ELSE @[j]]])

\* edit_phone storing Field(new_phone) in place of Phone(new_phone).
edit_phone_unvalidated(rec, old_phone, new_phone) ==
    LET i == FirstIndex(rec.phones, old_phone) IN
    IF i = 0 THEN Ok(rec) ELSE Ok([rec EXCEPT !.phones[i] = new_phone])

\* Record.edit_phone: Phone(new_phone) is built only once a match is found.
edit_phone(rec, old_phone, new_phone) ==
    LET i == FirstIndex(rec.phones, old_phone) IN
    IF i = 0 THEN Ok(rec)
    ELSE LET p == Phone(new_phone) IN
         IF p.status # "ok" THEN Raise(p.status)
         ELSE Ok([rec EXCEPT !.phones[i] = p.value])

\* Record.add_birthday
add_birthday(rec, birthday) ==
    LET b == Birthday(birthday) IN
    IF b.status # "ok" THEN Raise(b.status)
    ELSE Ok([rec EXCEPT !.birthday = b.value])

\* Record.days_to_birthday with the clock reading `day`: <<n>> for the
\* integer n, <<>> for None.  birthday.value is a datetime and `day` a date.
days_to_birthday(rec, day) ==
    IF rec.birthday = None THEN Ok(<<>>)
    ELSE
      LET r1 == replace(rec.birthday, day.year) IN
      IF r1.status # "ok" THEN Raise(r1.status)
      ELSE
        LET c == date_lt(r1.value, day) IN
        IF c.status # "ok" THEN Raise(c.status)
        ELSE
          LET r2 == IF c.value THEN replace(rec.birthday, day.year + 1) ELSE r1 IN
          IF r2.status # "ok" THEN Raise(r2.status)
          ELSE
            LET d == date_sub_days(r2.value, day) IN
            IF d.status # "ok" THEN Raise(d.status) ELSE Ok(<<d.value>>)

---------------------------------------------------------------------------
(* AddressBook: the dict `data`, as the sequence of its records in         *)
(* insertion order.                                                        *)

\* AddressBook.find: the index of the record of that name, 0 for None.
find(data, name) ==
    IF \E i \in 1 .. Len(data) : data[i].name = name
    THEN CHOOSE i \in 1 .. Len(data) : data[i].name = name
    ELSE 0

\* AddressBook.add_record: a dict assignment keeps the place of a key it has.
add_record(data, record) ==
    LET i == find(data, record.name) IN
    IF i = 0 THEN Append(data, record) ELSE [data EXCEPT ![i] = record]

\* AddressBook.delete
delete(data, name) == SelectSeq(data, LAMBDA r : r.name # name)

\* The window test without its upper bound: today <= birthday_this_year.
InWindowNoUpperBound(day, b, next_week) == toordinal(day) <= toordinal(b)

\* today <= birthday_this_year <= next_week
InWindow(day, b, next_week) ==
    toordinal(day) <= toordinal(b) /\ toordinal(b) <= toordinal(next_week)

\* The entry appended for one record, <<>> when the record adds none, or the
\* exception replace raises.
EntryOf(record, day, next_week, first_day_of_next_week) ==
    IF record.birthday = None THEN Ok(<<>>)
    ELSE
      LET r1 == replace(record.birthday, day.year) IN
      IF r1.status # "ok" THEN Raise(r1.status)
      ELSE
        LET r2 == IF toordinal(date(r1.value)) < toordinal(day)
                  THEN replace(record.birthday, day.year + 1)
                  ELSE r1
        IN
        IF r2.status # "ok" THEN Raise(r2.status)
        ELSE
          LET birthday_this_year == date(r2.value) IN
          IF ~InWindow(day, birthday_this_year, next_week) THEN Ok(<<>>)
          ELSE IF weekday(birthday_this_year) <= 4
          THEN Ok(<<[name |-> record.name,
                     congratulation_date |-> strftime_Ymd(birthday_this_year)]>>)
          ELSE IF weekday(birthday_this_year) \in {5, 6}
          THEN Ok(<<[name |-> record.name,
                     congratulation_date |-> strftime_Ymd(first_day_of_next_week)]>>)
          ELSE Ok(<<>>)

\* The for loop of get_upcoming_birthdays over the first n records.
RECURSIVE Collect(_, _, _, _, _)
Collect(data, n, day, next_week, first_day_of_next_week) ==
    IF n = 0 THEN Ok(<<>>)
    ELSE
      LET before == Collect(data, n - 1, day, next_week, first_day_of_next_week) IN
      IF before.status # "ok" THEN before
      ELSE
        LET e == EntryOf(data[n], day, next_week, first_day_of_next_week) IN
        IF e.status # "ok" THEN Raise(e.status)
        ELSE Ok(before.value \o e.value)

\* sorted(entries, key=lambda x: x["congratulation_date"]): stable.
RECURSIVE sorted(_)
sorted(entries) ==
    IF entries = <<>> THEN <<>>
    ELSE
      LET front == sorted(SubSeq(entries, 1, Len(entries) - 1))
          x     == entries[Len(entries)]
          after == {i \in 1 .. Len(front) :
                       str_lt(x.congratulation_date, front[i].congratulation_date)}
          k     == IF after = {} THEN Len(front) + 1
                   ELSE CHOOSE i \in after : \A j \in after : i <= j
      IN  SubSeq(front, 1, k - 1) \o <<x>> \o SubSeq(front, k, Len(front))

\* AddressBook.get_upcoming_birthdays with the clock reading `day`.
get_upcoming_birthdays(data, day) ==
    LET next_week == timedelta_add(day, 7)
        first_day_of_next_week == timedelta_add(next_week, 0 - weekday(next_week))
        got == Collect(data, Len(data), day, next_week, first_day_of_next_week)
    IN  IF got.status # "ok" THEN got ELSE Ok(sorted(got.value))

---------------------------------------------------------------------------
(* Inputs.                                                                 *)

Names == {"Anna", "Bob"}

Rep(c, n) == [i \in 1 .. n |-> c]

\* "0000000000", "7777777777" and ten Arabic-Indic fives.
DigitPhones == {Rep(48, PhoneLen), Rep(55, PhoneLen), Rep(1637, PhoneLen)}

\* "", nine digits, eleven digits, "000000000a", "+000000000".
OtherPhones ==
    {<<>>, Rep(48, PhoneLen - 1), Rep(48, PhoneLen + 1),
     Append(Rep(48, PhoneLen - 1), 97), <<43>> \o Rep(48, PhoneLen - 1)}

PhoneRaws == DigitPhones \cup OtherPhones

\* The clock: NumDays days from Saturday 23.12.2023 (into 2024) and NumDays
\* days from 22.02.2024 (over the leap day).
Todays ==
    {timedelta_add(Date(2023, 12, 23), i) : i \in 0 .. NumDays - 1}
        \cup {timedelta_add(Date(2024, 2, 22), i) : i \in 0 .. NumDays - 1}

\* Birthdays from 29.12.1999 on, and 28.02.2000, 29.02.2000, 01.03.2000.
BirthdayDates ==
    {timedelta_add(Date(1999, 12, 29), i) : i \in 0 .. NumBirthdays - 1}
        \cup {timedelta_add(Date(2000, 2, 28), i) : i \in 0 .. 2}

\* "29.02.2001" and "31.12".
BadBirthdayRaws ==
    {strftime_dmY(Date(2001, 2, 29)), Digits(31, 2) \o <<DOT>> \o Digits(12, 2)}

BirthdayRaws == {strftime_dmY(d) : d \in BirthdayDates} \cup BadBirthdayRaws

\* For the calls on one record: "01.01.2000", "29.02.2000", "29.02.2001".
RecordBirthdayRaws ==
    {strftime_dmY(Date(2000, 1, 1)), strftime_dmY(Date(2000, 2, 29)),
     strftime_dmY(Date(2001, 2, 29))}

---------------------------------------------------------------------------
(* The calls of the core, made directly on a book.  `out` is the last      *)
(* call: what was called, with what, and what it returned or raised.       *)

\* addressbook.pkl: absent, or holding a pickled book.
NoFile == [exists |-> FALSE, data |-> <<>>]

\* save_data: the whole book is written to the file.
save_data(data) == [exists |-> TRUE, data |-> data]

\* load_data: the pickled book, or a new AddressBook when there is no file.
load_data(file) == IF file.exists THEN file.data ELSE <<>>

CallOf(op, name, a1, a2, day, res) ==
    [op |-> op, name |-> name, old |-> a1, new |-> a2, today |-> day,
     status |-> res.status, value |-> res.value]

NoCall == CallOf("", "", <<>>, <<>>, None, Ok(<<>>))

\* The book after a call on its record i that returned `res`.
Stored(data, i, res) ==
    IF res.status = "ok" THEN [data EXCEPT ![i] = res.value] ELSE data

AddRecord(n) ==
    /\ book' = add_record(book, Record(n))
    /\ out' = CallOf("add_record", n, <<>>, <<>>, None, Ok(<<>>))
    /\ UNCHANGED <<pc, saved>>

Delete(n) ==
    /\ book' = delete(book, n)
    /\ out' = CallOf("delete", n, <<>>, <<>>, None, Ok(<<>>))
    /\ UNCHANGED <<pc, saved>>

AddPhone(n, raw) ==
    LET i == find(book, n) IN
    /\ i # 0
    /\ Len(book[i].phones) < MaxPhones
    /\ LET res == add_phone(book[i], raw) IN
       /\ book' = Stored(book, i, res)
       /\ out' = CallOf("add_phone", n, raw, <<>>, None, [res EXCEPT !.value = <<>>])
    /\ UNCHANGED <<pc, saved>>

RemovePhone(n, raw) ==
    LET i == find(book, n) IN
    /\ i # 0
    /\ book' = [book EXCEPT ![i] = remove_phone(@, raw)]
    /\ out' = CallOf("remove_phone", n, raw, <<>>, None, Ok(<<>>))
    /\ UNCHANGED <<pc, saved>>

EditPhone(n, old, new) ==
    LET i == find(book, n) IN
    /\ i # 0
    /\ LET res == edit_phone(book[i], old, new) IN
       /\ book' = Stored(book, i, res)
       /\ out' = CallOf("edit_phone", n, old, new, None, [res EXCEPT !.value = <<>>])
    /\ UNCHANGED <<pc, saved>>

SetBirthday(n, raw) ==
    LET i == find(book, n) IN
    /\ i # 0
    /\ LET res == add_birthday(book[i], raw) IN
       /\ book' = Stored(book, i, res)
       /\ out' = CallOf("add_birthday", n, <<>>, <<>>, None, [res EXCEPT !.value = <<>>])
    /\ UNCHANGED <<pc, saved>>

DaysToBirthday(n, day) ==
    LET i == find(book, n) IN
    /\ i # 0
    /\ out' = CallOf("days_to_birthday", n, <<>>, <<>>, day,
                     days_to_birthday(book[i], day))
    /\ UNCHANGED <<book, pc, saved>>

UpcomingBirthdays(day) ==
    /\ out' = CallOf("get_upcoming_birthdays", "", <<>>, <<>>, day,
                     get_upcoming_birthdays(book, day))
    /\ UNCHANGED <<book, pc, saved>>

\* One record, Record("Anna"), and the calls on its phone list and birthday.
InitRecord ==
    /\ book = <<Record("Anna")>>
    /\ out = NoCall
    /\ pc = "running"
    /\ saved = NoFile

NextRecord ==
    \/ \E n \in Names, raw \in PhoneRaws : AddPhone(n, raw)
    \/ \E n \in Names, raw \in PhoneRaws : RemovePhone(n, raw)
    \/ \E n \in Names, old \in PhoneRaws, new \in PhoneRaws : EditPhone(n, old, new)
    \/ \E n \in Names, raw \in RecordBirthdayRaws : SetBirthday(n, raw)
    \/ \E n \in Names, day \in Todays : DaysToBirthday(n, day)

SpecRecord == InitRecord /\ [][NextRecord]_vars

\* A book of records with birthdays, and the queries that read the clock.
InitBook ==
    /\ book = <<>>
    /\ out = NoCall
    /\ pc = "running"
    /\ saved = NoFile

NextBook ==
    \/ \E n \in Names : AddRecord(n)
    \/ \E n \in Names : Delete(n)
    \/ \E n \in Names, raw \in BirthdayRaws : SetBirthday(n, raw)
    \/ \E day \in Todays : UpcomingBirthdays(day)

SpecBook == InitBook /\ [][NextBook]_vars

---------------------------------------------------------------------------
(* The command handlers and the loop of main().  A line is the sequence of *)
(* its whitespace-separated words, which is what str.split() returns; the  *)
(* blank line is the empty sequence.                                       *)

\* str.lower() on the command words the inputs use.
lower(w) ==
    CASE w = "EXIT" -> "exit"
      [] w = "Add" -> "add"
      [] OTHER -> w

\* parse_input: parts[0] of a blank line is an IndexError.
parse_input(user_input) ==
    IF user_input = <<>> THEN Raise("IndexError")
    ELSE Ok([command |-> lower(user_input[1]), args |-> Tail(user_input)])

\* The result of a handler: the exception or the returned text, and the book
\* as the handler left it.
Handled(status, value, data) == [status |-> status, value |-> value, book |-> data]

\* input_error: IndexError, KeyError and ValueError become the returned text.
input_error(res) ==
    IF res.status \in {"IndexError", "KeyError", "ValueError"}
    THEN Handled("ok", <<"Error", res.status>>, res.book)
    ELSE res

\* add_contact, before the decorator.  A word of a split line is never empty,
\* so `if phone` holds whenever there is a phone.
add_contact_body(args, data) ==
    IF Len(args) < 2 THEN Handled("ValueError", <<>>, data)
    ELSE
      LET name   == args[1]
          phone  == args[2]
          found  == find(data, name)
          data1  == IF found = 0 THEN add_record(data, Record(name)) ELSE data
          message == IF found = 0 THEN "Contact added." ELSE "Contact updated."
          i      == find(data1, name)
          res    == add_phone(data1[i], phone)
      IN  IF res.status # "ok" THEN Handled(res.status, <<>>, data1)
          ELSE Handled("ok", <<message>>, [data1 EXCEPT ![i] = res.value])

add_contact(args, data) == input_error(add_contact_body(args, data))

\* add_birthday (the handler), before the decorator.
add_birthday_body(args, data) ==
    IF Len(args) < 2 THEN Handled("ValueError", <<>>, data)
    ELSE
      LET i == find(data, args[1]) IN
      IF i = 0 THEN Handled("ok", <<"Error: contact not found.">>, data)
      ELSE
        LET res == add_birthday(data[i], args[2]) IN
        IF res.status # "ok" THEN Handled(res.status, <<>>, data)
        ELSE Handled("ok", <<"Birthday added successfully.">>,
                     [data EXCEPT ![i] = res.value])

add_birthday_handler(args, data) == input_error(add_birthday_body(args, data))

\* show_birthday
show_birthday(args, data) ==
    input_error(
      IF Len(args) < 1 THEN Handled("IndexError", <<>>, data)
      ELSE
        LET i == find(data, args[1]) IN
        IF i = 0 \/ data[i].birthday = None
        THEN Handled("ok", <<"No birthday information found for this contact.">>, data)
        ELSE Handled("ok", <<args[1], Birthday_str(data[i].birthday)>>, data))

\* birthdays
birthdays(args, data, day) ==
    input_error(
      LET res == get_upcoming_birthdays(data, day) IN
      IF res.status # "ok" THEN Handled(res.status, <<>>, data)
      ELSE IF res.value = <<>>
      THEN Handled("ok", <<"No birthdays in the coming week.">>, data)
      ELSE Handled("ok", res.value, data))

\* Record.__str__
Record_str(rec) ==
    <<rec.name, rec.phones,
      IF rec.birthday = None THEN <<>> ELSE Birthday_str(rec.birthday)>>

\* What the loop prints for a line, or the exception that leaves main().
\* For add, `old` keeps the phone that was typed.
Printed(command, args, res) ==
    [op |-> command, name |-> "",
     old |-> IF command = "add" /\ Len(args) >= 2 THEN args[2] ELSE <<>>,
     new |-> <<>>, today |-> None, status |-> res.status, value |-> res.value]

\* An exception no handler catches ends main() before save_data.
Crash(command, args, e) ==
    /\ pc' = "crashed"
    /\ out' = Printed(command, args, Raise(e))
    /\ UNCHANGED <<book, saved>>

Running(line, command) ==
    /\ pc = "running"
    /\ parse_input(line).status = "ok"
    /\ parse_input(line).value.command = command

ArgsOf(line) == parse_input(line).value.args

\* A blank line: parse_input raises IndexError in main().
CmdBlank(line) ==
    /\ pc = "running"
    /\ parse_input(line).status # "ok"
    /\ Crash("", <<>>, parse_input(line).status)

\* case "close" | "exit": break, then save_data(book).
CmdExit(line) ==
    /\ Running(line, "exit") \/ Running(line, "close")
    /\ pc' = "ended"
    /\ saved' = save_data(book)
    /\ out' = Printed("exit", <<>>, Ok(<<"Good bye!">>))
    /\ UNCHANGED book

CmdHello(line) ==
    /\ Running(line, "hello")
    /\ out' = Printed("hello", <<>>, Ok(<<"How can I help you?">>))
    /\ UNCHANGED <<book, pc, saved>>

CmdAdd(line) ==
    /\ Running(line, "add")
    /\ LET args == ArgsOf(line)
           res  == add_contact(args, book)
       IN  /\ \A i \in 1 .. Len(res.book) : Len(res.book[i].phones) <= MaxLinePhones
           /\ book' = res.book
           /\ out' = Printed("add", args, res)
    /\ UNCHANGED <<pc, saved>>

CmdChange(line) ==
    /\ Running(line, "change")
    /\ LET args == ArgsOf(line) IN
       IF Len(args) # 3 THEN Crash("change", args, "ValueError")
       ELSE
         LET i == find(book, args[1]) IN
         IF i = 0
         THEN /\ out' = Printed("change", args, Ok(<<"Contact not found.">>))
              /\ UNCHANGED <<book, pc, saved>>
         ELSE
           LET res == edit_phone(book[i], args[2], args[3]) IN
           IF res.status # "ok" THEN Crash("change", args, res.status)
           ELSE /\ book' = [book EXCEPT ![i] = res.value]
                /\ out' = Printed("change", args, Ok(<<"Phone number updated.">>))
                /\ UNCHANGED <<pc, saved>>

CmdPhone(line) ==
    /\ Running(line, "phone")
    /\ LET args == ArgsOf(line) IN
       IF Len(args) < 1 THEN Crash("phone", args, "IndexError")
       ELSE
         LET i == find(book, args[1]) IN
         /\ out' = Printed("phone", args,
                           IF i = 0 THEN Ok(<<"Contact not found.">>)
                           ELSE Ok(book[i].phones))
         /\ UNCHANGED <<book, pc, saved>>

CmdAll(line) ==
    /\ Running(line, "all")
    /\ out' = Printed("all", <<>>, Ok([i \in 1 .. Len(book) |-> Record_str(book[i])]))
    /\ UNCHANGED <<book, pc, saved>>

CmdAddBirthday(line) ==
    /\ Running(line, "add-birthday")
    /\ LET args == ArgsOf(line)
           res  == add_birthday_handler(args, book)
       IN  /\ book' = res.book
           /\ out' = Printed("add-birthday", args, res)
    /\ UNCHANGED <<pc, saved>>

CmdShowBirthday(line) ==
    /\ Running(line, "show-birthday")
    /\ out' = Printed("show-birthday", ArgsOf(line), show_birthday(ArgsOf(line), book))
    /\ UNCHANGED <<book, pc, saved>>

CmdBirthdays(line) ==
    /\ Running(line, "birthdays")
    /\ \E day \in Todays :
          out' = [Printed("birthdays", <<>>, birthdays(ArgsOf(line), book, day))
                    EXCEPT !.today = day]
    /\ UNCHANGED <<book, pc, saved>>

Commands ==
    {"close", "exit", "hello", "add", "change", "phone", "all", "add-birthday",
     "show-birthday", "birthdays"}

\* case _
CmdInvalid(line) ==
    /\ pc = "running"
    /\ parse_input(line).status = "ok"
    /\ parse_input(line).value.command \notin Commands
    /\ out' = Printed("invalid", <<>>, Ok(<<"Invalid command.">>))
    /\ UNCHANGED <<book, pc, saved>>

\* The phones of the typed lines: "0000000000", "7777777777" and "000000000"
\* (nine digits).
LinePhones == {Rep(48, PhoneLen), Rep(55, PhoneLen), Rep(48, PhoneLen - 1)}

\* The birthdays of the typed lines: "29.02.2000" and "29.02.2001".
LineBirthdays == {strftime_dmY(Date(2000, 2, 29)), strftime_dmY(Date(2001, 2, 29))}

InputLines ==
    {<<>>, <<"exit">>, <<"close">>, <<"EXIT">>, <<"hello">>, <<"all">>,
     <<"all", "Anna">>, <<"birthdays">>, <<"remove">>, <<"add">>, <<"change">>,
     <<"phone">>, <<"add-birthday">>, <<"show-birthday">>}
      \cup {<<c, n>> : c \in {"add", "Add", "change", "phone", "add-birthday",
                               "show-birthday"}, n \in Names}
      \cup {<<"add", n, p>> : n \in Names, p \in LinePhones}
      \cup {<<"add", n, p, p>> : n \in Names, p \in LinePhones}
      \cup {<<"change", n, p, q>> : n \in Names, p \in LinePhones, q \in LinePhones}
      \cup {<<"change", n, p>> : n \in Names, p \in LinePhones}
      \cup {<<"add-birthday", n, b>> : n \in Names, b \in LineBirthdays}

\* main(): book = load_data(), then the loop.
InitMain ==
    /\ saved = NoFile
    /\ book = load_data(saved)
    /\ out = NoCall
    /\ pc = "running"

NextMain ==
    \/ \E line \in InputLines : CmdBlank(line)
    \/ \E line \in InputLines : CmdExit(line)
    \/ \E line \in InputLines : CmdHello(line)
    \/ \E line \in InputLines : CmdAdd(line)
    \/ \E line \in InputLines : CmdChange(line)
    \/ \E line \in InputLines : CmdPhone(line)
    \/ \E line \in InputLines : CmdAll(line)
    \/ \E line \in InputLines : CmdAddBirthday(line)
    \/ \E line \in InputLines : CmdShowBirthday(line)
    \/ \E line \in InputLines : CmdBirthdays(line)
    \/ \E line \in InputLines : CmdInvalid(line)

SpecMain == InitMain /\ [][NextMain]_vars

---------------------------------------------------------------------------
(* Properties.                                                             *)

\* The date a "YYYY.MM.DD" text denotes.
ParseYmd(s) ==
    Date(ToInt(SubSeq(s, 1, 4)), ToInt(SubSeq(s, 6, 7)), ToInt(SubSeq(s, 9, 10)))

\* A phone number as the specification has it: exactly 10 ASCII digits.
TenAsciiDigits(s) == Len(s) = 10 /\ \A i \in 1 .. Len(s) : s[i] \in 48 .. 57

\* Not 10 characters long, or holding a character that is no decimal digit.
WrongLengthOrNonDigit(s) ==
    Len(s) # 10 \/ \E i \in 1 .. Len(s) : s[i] \notin UnicodeDecimals

\* The ordinal of the next occurrence of birthday b on or after day t: this
\* year's, or next year's when this year's is before t.
NextOccurrence(b, t) ==
    LET this == Ymd2Ord(t.year, b.month, b.day) IN
    IF this < toordinal(t) THEN Ymd2Ord(t.year + 1, b.month, b.day) ELSE this

\* The ordinal of the Monday of the week of ordinal n.
MondayOf(n) == n - ((n + 6) % 7)

IsWeekend(n) == (n + 6) % 7 \in {5, 6}

Returned == out.op = "get_upcoming_birthdays" /\ out.status = "ok"

CongratulationOrd(e) == toordinal(ParseYmd(e.congratulation_date))

\* C1: no entry get_upcoming_birthdays returns has a congratulation date before
\* today or after today + 7 days, shifted or not.
C1_WithinWindow ==
    Returned =>
      \A i \in 1 .. Len(out.value) :
         /\ toordinal(out.today) <= CongratulationOrd(out.value[i])
         /\ CongratulationOrd(out.value[i]) <= toordinal(out.today) + 7

\* A query returned a weekday birthday on its own date and a weekend birthday
\* on another date.
C1_Witness ==
    /\ Returned
    /\ \E i, j \in 1 .. Len(out.value) :
         LET bi == NextOccurrence(book[find(book, out.value[i].name)].birthday, out.today)
             bj == NextOccurrence(book[find(book, out.value[j].name)].birthday, out.today)
         IN  /\ ~IsWeekend(bi) /\ CongratulationOrd(out.value[i]) = bi
             /\ IsWeekend(bj) /\ CongratulationOrd(out.value[j]) # bj

\* The entries are exactly one per record whose next birthday is within
\* today .. today + 7, dated that day, or the Monday of the week of
\* today + 7 for a Saturday or Sunday.
ExactlyTheUpcoming(entries, data, t) ==
    /\ \A k \in 1 .. Len(entries) : find(data, entries[k].name) # 0
    /\ \A i \in 1 .. Len(data) :
         LET mine == {k \in 1 .. Len(entries) : entries[k].name = data[i].name}
             b    == NextOccurrence(data[i].birthday, t)
         IN  IF /\ data[i].birthday # None
                /\ toordinal(t) <= b
                /\ b <= toordinal(t) + 7
             THEN /\ Cardinality(mine) = 1
                  /\ \A k \in mine :
                       CongratulationOrd(entries[k]) =
                         IF IsWeekend(b) THEN MondayOf(toordinal(t) + 7) ELSE b
             ELSE mine = {}

\* C2: for every today and every book, get_upcoming_birthdays returns exactly
\* one entry per record whose next birthday B is within today .. today + 7,
\* dated B, or the Monday of the week of today + 7 when B is on a weekend.
C2_ExactlyTheUpcoming ==
    out.op = "get_upcoming_birthdays" =>
      /\ out.status = "ok"
      /\ ExactlyTheUpcoming(out.value, book, out.today)

\* Whenever get_upcoming_birthdays does return, its entries are those of C2.
ReturnedEntriesExact == Returned => ExactlyTheUpcoming(out.value, book, out.today)

\* C3: with a birthday set, days_to_birthday returns an integer that is never
\* negative, and 0 when today is the birthday's month and day.
C3_DaysNonNegative ==
    (out.op = "days_to_birthday" /\ book[find(book, out.name)].birthday # None) =>
      /\ out.status = "ok"
      /\ Len(out.value) = 1
      /\ out.value[1] >= 0
      /\ LET b == book[find(book, out.name)].birthday IN
         (b.month = out.today.month /\ b.day = out.today.day) => out.value[1] = 0

\* C4: with a record born on 29 February in the book, get_upcoming_birthdays
\* completes with a result, whatever the year of today.
C4_LeapDayCompletes ==
    (/\ out.op = "get_upcoming_birthdays"
     /\ \E i \in 1 .. Len(book) : book[i].birthday.month = 2 /\ book[i].birthday.day = 29)
      => out.status = "ok"

\* The step is a call of edit_phone whose new_phone is `bad`.
EditStep(bad) == out'.op = "edit_phone" /\ bad

PhonesBefore == book[find(book, out'.name)].phones

PhonesAfter == book'[find(book', out'.name)].phones

InList(x, list) == \E i \in 1 .. Len(list) : list[i] = x

\* C5 as claimed: for every old_phone, in the list or not, edit_phone with a
\* new_phone that is no valid phone number raises ValueError and leaves the
\* record unchanged.
C5_AlwaysRaises ==
    [][EditStep(~TenAsciiDigits(out'.new))
         => (out'.status = "ValueError" /\ book' = book)]_vars

\* C5 amended: with a new_phone of the wrong length or holding a character that
\* is no decimal digit, edit_phone leaves the record unchanged; it raises
\* ValueError when old_phone is in the list and returns without an error when
\* it is not.
C5_RaisesWhenFound ==
    [][EditStep(WrongLengthOrNonDigit(out'.new))
         => /\ book' = book
            /\ IF InList(out'.old, PhonesBefore)
               THEN out'.status = "ValueError"
               ELSE out'.status = "ok"]_vars

\* edit_phone raised ValueError on a list that holds old_phone and a birthday.
C5_Witness ==
    /\ out.op = "edit_phone"
    /\ out.status = "ValueError"
    /\ WrongLengthOrNonDigit(out.new)
    /\ InList(out.old, book[find(book, out.name)].phones)
    /\ book[find(book, out.name)].birthday # None

\* C6: add_phone succeeds exactly for a raw of exactly 10 ASCII digits, then
\* appending raw as given; for any other raw it raises ValueError and the
\* phone list is unchanged.
C6_TenAsciiDigitsOnly ==
    [][out'.op = "add_phone"
         => IF TenAsciiDigits(out'.old)
            THEN out'.status = "ok" /\ PhonesAfter = Append(PhonesBefore, out'.old)
            ELSE out'.status = "ValueError" /\ book' = book]_vars

\* C7: with old_phone in the list and a valid new_phone, edit_phone replaces
\* the first entry equal to old_phone and nothing else; with old_phone not in
\* the list it changes nothing and raises nothing.
C7_ReplacesFirstOnly ==
    [][EditStep(TenAsciiDigits(out'.new))
         => /\ out'.status = "ok"
            /\ Len(book') = Len(book)
            /\ \A r \in 1 .. Len(book) :
                 /\ book'[r].name = book[r].name
                 /\ book'[r].birthday = book[r].birthday
                 /\ book[r].name # out'.name => book'[r] = book[r]
            /\ Len(PhonesAfter) = Len(PhonesBefore)
            /\ IF InList(out'.old, PhonesBefore)
               THEN \E k \in 1 .. Len(PhonesBefore) :
                      /\ PhonesBefore[k] = out'.old
                      /\ \A j \in 1 .. k - 1 : PhonesBefore[j] # out'.old
                      /\ PhonesAfter[k] = out'.new
                      /\ \A j \in 1 .. Len(PhonesBefore) :
                           j # k => PhonesAfter[j] = PhonesBefore[j]
               ELSE PhonesAfter = PhonesBefore]_vars

\* edit_phone replaced an entry and a later duplicate of old_phone is still in
\* the list.
C7_Witness ==
    /\ out.op = "edit_phone"
    /\ out.status = "ok"
    /\ TenAsciiDigits(out.new)
    /\ out.old # out.new
    /\ LET phones == book[find(book, out.name)].phones IN
       \E k, j \in 1 .. Len(phones) :
          k < j /\ phones[k] = out.new /\ phones[j] = out.old

\* C8: an add command whose phone is no valid phone number returns an error
\* message and leaves the book as it was, creating no contact.
C8_FailedAddChangesNothing ==
    [][(out'.op = "add" /\ out'.old # <<>> /\ ~TenAsciiDigits(out'.old))
         => (out'.value[1] = "Error" /\ book' = book)]_vars

\* C9: the loop ends only on exit or close, and whenever the session has ended
\* the book has been saved.
C9_EndsSaved == pc # "running" => (pc = "ended" /\ saved = save_data(book))

\* C10: every entry's congratulation date is on or after the birthday
\* occurrence it was computed from.
C10_NotBeforeBirthday ==
    Returned =>
      \A i \in 1 .. Len(out.value) :
         CongratulationOrd(out.value[i]) >=
           NextOccurrence(book[find(book, out.value[i].name)].birthday, out.today)

=============================================================================
